---- MODULE Spec2Model ----
(***************************************************************************)
(* Halving-cycle dashboard (src/app/page.tsx): the Home component's state  *)
(* (priceData, cycleAnalysis, loading), the single load started by the     *)
(* mount effect (fetchHistoricalData) and the analysis performBacktest.    *)
(*                                                                         *)
(* Units.  Timestamps are whole seconds since the epoch (the source uses   *)
(* milliseconds; every time constant of the source is a whole number of    *)
(* seconds, and milliseconds since the epoch exceed the integer range of   *)
(* the model checker).  Prices are in hundredths of a dollar, so that the  *)
(* halving table's priceAtHalving values (12.35, 650.63, ...) are          *)
(* integers.  A JavaScript number that results from a division is a        *)
(* record: kind "num" with the exact reduced fraction n/d, or kind         *)
(* "Infinity", "-Infinity", "NaN".  A date string 'yyyy-MM-dd' is the      *)
(* tuple <<yyyy, MM, dd>> and the empty string '' is <<>>.  format() works *)
(* in the local time zone of the browser, which is part of the state: a    *)
(* zone gives the offset from UTC at each instant, so the dates of one     *)
(* series may be taken at different offsets.                               *)
(***************************************************************************)
EXTENDS Integers, Sequences, FiniteSets, TLC

\* ------------------------------------------------------------------------
\* Bounds of the explored inputs
\* ------------------------------------------------------------------------
\* longest short price series returned by the endpoint
MaxLen == 3
\* points of a long daily series beyond the 365th point after its first one
ExtraPoints == 3
\* cap on the number of requests counted
MaxRequests == 2

\* ------------------------------------------------------------------------
\* Program constants
\* ------------------------------------------------------------------------
\* one day, 24 * 60 * 60 * 1000 ms in the source
DayLen == 24 * 60 * 60
\* 365 days before the halving (pre-halving window)
PreDays == 365
\* 730 days after the halving (post-halving window)
PostDays == 730
\* afterPeak.slice(0, 365)
CrashPoints == 365

\* halvingEvents (date, blockHeight, cycle, priceAtHalving in cents)
halvingEvents ==
  << [date |-> <<2012, 11, 28>>, blockHeight |-> 210000, cycle |-> 1, priceAtHalving |-> 1235],
     [date |-> <<2016, 7, 9>>,   blockHeight |-> 420000, cycle |-> 2, priceAtHalving |-> 65063],
     [date |-> <<2020, 5, 11>>,  blockHeight |-> 630000, cycle |-> 3, priceAtHalving |-> 882142],
     [date |-> <<2024, 4, 19>>,  blockHeight |-> 840000, cycle |-> 4, priceAtHalving |-> 6381200] >>

\* ------------------------------------------------------------------------
\* Dates
\* ------------------------------------------------------------------------
\* new Date('yyyy-MM-dd').getTime(): midnight UTC of the civil date
DateGetTime(date) ==
  LET m   == date[2]
      y   == IF m <= 2 THEN date[1] - 1 ELSE date[1]
      era == y \div 400
      yoe == y - era * 400
      mp  == IF m > 2 THEN m - 3 ELSE m + 9
      doy == ((153 * mp + 2) \div 5) + date[3] - 1
      doe == yoe * 365 + (yoe \div 4) - (yoe \div 100) + doy
  IN  (era * 146097 + doe - 719468) * DayLen

\* A time zone: its offset from UTC (seconds east) at the epoch, and the
\* instants from which another offset applies, in ascending order.  The
\* tables are those of the zone database for 1970 to 2037.
Utc == [base |-> 0, changes |-> <<>>]

Tokyo == [base |-> 9 * 60 * 60, changes |-> <<>>]

NewYork ==
  [base |-> 0 - 18000,
   changes |-> <<
     <<9961200, 0 - 14400>>, <<25682400, 0 - 18000>>, <<41410800, 0 - 14400>>,
     <<57736800, 0 - 18000>>, <<73465200, 0 - 14400>>, <<89186400, 0 - 18000>>,
     <<104914800, 0 - 14400>>, <<120636000, 0 - 18000>>, <<126687600, 0 - 14400>>,
     <<152085600, 0 - 18000>>, <<162370800, 0 - 14400>>, <<183535200, 0 - 18000>>,
     <<199263600, 0 - 14400>>, <<215589600, 0 - 18000>>, <<230713200, 0 - 14400>>,
     <<247039200, 0 - 18000>>, <<262767600, 0 - 14400>>, <<278488800, 0 - 18000>>,
     <<294217200, 0 - 14400>>, <<309938400, 0 - 18000>>, <<325666800, 0 - 14400>>,
     <<341388000, 0 - 18000>>, <<357116400, 0 - 14400>>, <<372837600, 0 - 18000>>,
     <<388566000, 0 - 14400>>, <<404892000, 0 - 18000>>, <<420015600, 0 - 14400>>,
     <<436341600, 0 - 18000>>, <<452070000, 0 - 14400>>, <<467791200, 0 - 18000>>,
     <<483519600, 0 - 14400>>, <<499240800, 0 - 18000>>, <<514969200, 0 - 14400>>,
     <<530690400, 0 - 18000>>, <<544604400, 0 - 14400>>, <<562140000, 0 - 18000>>,
     <<576054000, 0 - 14400>>, <<594194400, 0 - 18000>>, <<607503600, 0 - 14400>>,
     <<625644000, 0 - 18000>>, <<638953200, 0 - 14400>>, <<657093600, 0 - 18000>>,
     <<671007600, 0 - 14400>>, <<688543200, 0 - 18000>>, <<702457200, 0 - 14400>>,
     <<719992800, 0 - 18000>>, <<733906800, 0 - 14400>>, <<752047200, 0 - 18000>>,
     <<765356400, 0 - 14400>>, <<783496800, 0 - 18000>>, <<796806000, 0 - 14400>>,
     <<814946400, 0 - 18000>>, <<828860400, 0 - 14400>>, <<846396000, 0 - 18000>>,
     <<860310000, 0 - 14400>>, <<877845600, 0 - 18000>>, <<891759600, 0 - 14400>>,
     <<909295200, 0 - 18000>>, <<923209200, 0 - 14400>>, <<941349600, 0 - 18000>>,
     <<954658800, 0 - 14400>>, <<972799200, 0 - 18000>>, <<986108400, 0 - 14400>>,
     <<1004248800, 0 - 18000>>, <<1018162800, 0 - 14400>>, <<1035698400, 0 - 18000>>,
     <<1049612400, 0 - 14400>>, <<1067148000, 0 - 18000>>, <<1081062000, 0 - 14400>>,
     <<1099202400, 0 - 18000>>, <<1112511600, 0 - 14400>>, <<1130652000, 0 - 18000>>,
     <<1143961200, 0 - 14400>>, <<1162101600, 0 - 18000>>, <<1173596400, 0 - 14400>>,
     <<1194156000, 0 - 18000>>, <<1205046000, 0 - 14400>>, <<1225605600, 0 - 18000>>,
     <<1236495600, 0 - 14400>>, <<1257055200, 0 - 18000>>, <<1268550000, 0 - 14400>>,
     <<1289109600, 0 - 18000>>, <<1299999600, 0 - 14400>>, <<1320559200, 0 - 18000>>,
     <<1331449200, 0 - 14400>>, <<1352008800, 0 - 18000>>, <<1362898800, 0 - 14400>>,
     <<1383458400, 0 - 18000>>, <<1394348400, 0 - 14400>>, <<1414908000, 0 - 18000>>,
     <<1425798000, 0 - 14400>>, <<1446357600, 0 - 18000>>, <<1457852400, 0 - 14400>>,
     <<1478412000, 0 - 18000>>, <<1489302000, 0 - 14400>>, <<1509861600, 0 - 18000>>,
     <<1520751600, 0 - 14400>>, <<1541311200, 0 - 18000>>, <<1552201200, 0 - 14400>>,
     <<1572760800, 0 - 18000>>, <<1583650800, 0 - 14400>>, <<1604210400, 0 - 18000>>,
     <<1615705200, 0 - 14400>>, <<1636264800, 0 - 18000>>, <<1647154800, 0 - 14400>>,
     <<1667714400, 0 - 18000>>, <<1678604400, 0 - 14400>>, <<1699164000, 0 - 18000>>,
     <<1710054000, 0 - 14400>>, <<1730613600, 0 - 18000>>, <<1741503600, 0 - 14400>>,
     <<1762063200, 0 - 18000>>, <<1772953200, 0 - 14400>>, <<1793512800, 0 - 18000>>,
     <<1805007600, 0 - 14400>>, <<1825567200, 0 - 18000>>, <<1836457200, 0 - 14400>>,
     <<1857016800, 0 - 18000>>, <<1867906800, 0 - 14400>>, <<1888466400, 0 - 18000>>,
     <<1899356400, 0 - 14400>>, <<1919916000, 0 - 18000>>, <<1930806000, 0 - 14400>>,
     <<1951365600, 0 - 18000>>, <<1962860400, 0 - 14400>>, <<1983420000, 0 - 18000>>,
     <<1994310000, 0 - 14400>>, <<2014869600, 0 - 18000>>, <<2025759600, 0 - 14400>>,
     <<2046319200, 0 - 18000>>, <<2057209200, 0 - 14400>>, <<2077768800, 0 - 18000>>,
     <<2088658800, 0 - 14400>>, <<2109218400, 0 - 18000>>, <<2120108400, 0 - 14400>>,
     <<2140668000, 0 - 18000>> >>]

Scoresbysund ==
  [base |-> 0 - 7200,
   changes |-> <<
     <<323841600, 0 - 3600>>, <<338961600, 0 - 7200>>, <<354679200, 0>>,
     <<370400400, 0 - 3600>>, <<386125200, 0>>, <<401850000, 0 - 3600>>,
     <<417574800, 0>>, <<433299600, 0 - 3600>>, <<449024400, 0>>,
     <<465354000, 0 - 3600>>, <<481078800, 0>>, <<496803600, 0 - 3600>>,
     <<512528400, 0>>, <<528253200, 0 - 3600>>, <<543978000, 0>>,
     <<559702800, 0 - 3600>>, <<575427600, 0>>, <<591152400, 0 - 3600>>,
     <<606877200, 0>>, <<622602000, 0 - 3600>>, <<638326800, 0>>,
     <<654656400, 0 - 3600>>, <<670381200, 0>>, <<686106000, 0 - 3600>>,
     <<701830800, 0>>, <<717555600, 0 - 3600>>, <<733280400, 0>>,
     <<749005200, 0 - 3600>>, <<764730000, 0>>, <<780454800, 0 - 3600>>,
     <<796179600, 0>>, <<811904400, 0 - 3600>>, <<828234000, 0>>,
     <<846378000, 0 - 3600>>, <<859683600, 0>>, <<877827600, 0 - 3600>>,
     <<891133200, 0>>, <<909277200, 0 - 3600>>, <<922582800, 0>>,
     <<941331600, 0 - 3600>>, <<954032400, 0>>, <<972781200, 0 - 3600>>,
     <<985482000, 0>>, <<1004230800, 0 - 3600>>, <<1017536400, 0>>,
     <<1035680400, 0 - 3600>>, <<1048986000, 0>>, <<1067130000, 0 - 3600>>,
     <<1080435600, 0>>, <<1099184400, 0 - 3600>>, <<1111885200, 0>>,
     <<1130634000, 0 - 3600>>, <<1143334800, 0>>, <<1162083600, 0 - 3600>>,
     <<1174784400, 0>>, <<1193533200, 0 - 3600>>, <<1206838800, 0>>,
     <<1224982800, 0 - 3600>>, <<1238288400, 0>>, <<1256432400, 0 - 3600>>,
     <<1269738000, 0>>, <<1288486800, 0 - 3600>>, <<1301187600, 0>>,
     <<1319936400, 0 - 3600>>, <<1332637200, 0>>, <<1351386000, 0 - 3600>>,
     <<1364691600, 0>>, <<1382835600, 0 - 3600>>, <<1396141200, 0>>,
     <<1414285200, 0 - 3600>>, <<1427590800, 0>>, <<1445734800, 0 - 3600>>,
     <<1459040400, 0>>, <<1477789200, 0 - 3600>>, <<1490490000, 0>>,
     <<1509238800, 0 - 3600>>, <<1521939600, 0>>, <<1540688400, 0 - 3600>>,
     <<1553994000, 0>>, <<1572138000, 0 - 3600>>, <<1585443600, 0>>,
     <<1603587600, 0 - 3600>>, <<1616893200, 0>>, <<1635642000, 0 - 3600>>,
     <<1648342800, 0>>, <<1667091600, 0 - 3600>>, <<1679792400, 0>>,
     <<1698541200, 0 - 3600>>, <<1729990800, 0 - 7200>>, <<1743296400, 0 - 3600>>,
     <<1761440400, 0 - 7200>>, <<1774746000, 0 - 3600>>, <<1792890000, 0 - 7200>>,
     <<1806195600, 0 - 3600>>, <<1824944400, 0 - 7200>>, <<1837645200, 0 - 3600>>,
     <<1856394000, 0 - 7200>>, <<1869094800, 0 - 3600>>, <<1887843600, 0 - 7200>>,
     <<1901149200, 0 - 3600>>, <<1919293200, 0 - 7200>>, <<1932598800, 0 - 3600>>,
     <<1950742800, 0 - 7200>>, <<1964048400, 0 - 3600>>, <<1982797200, 0 - 7200>>,
     <<1995498000, 0 - 3600>>, <<2014246800, 0 - 7200>>, <<2026947600, 0 - 3600>>,
     <<2045696400, 0 - 7200>>, <<2058397200, 0 - 3600>>, <<2077146000, 0 - 7200>>,
     <<2090451600, 0 - 3600>>, <<2108595600, 0 - 7200>>, <<2121901200, 0 - 3600>>,
     <<2140045200, 0 - 7200>> >>]

\* the zones a browser may be in
TimeZones == {Utc, Tokyo, NewYork, Scoresbysund}

\* the zone's offset at the instant ts: that of the last change at or
\* before ts, the base offset before the first change
OffsetAt(zone, ts) ==
  LET n == Cardinality({ i \in 1..Len(zone.changes) : zone.changes[i][1] <= ts })
  IN  IF n = 0 THEN zone.base ELSE zone.changes[n][2]

\* format(new Date(ts), 'yyyy-MM-dd') in the zone tz: the civil date of the
\* local day that holds the instant, at the offset the zone has then
FormatDate(ts, tz) ==
  LET z   == ((ts + OffsetAt(tz, ts)) \div DayLen) + 719468
      era == z \div 146097
      doe == z - era * 146097
      yoe == (doe - (doe \div 1460) + (doe \div 36524) - (doe \div 146096)) \div 365
      doy == doe - (365 * yoe + (yoe \div 4) - (yoe \div 100))
      mp  == (5 * doy + 2) \div 153
      d   == doy - ((153 * mp + 2) \div 5) + 1
      m   == IF mp < 10 THEN mp + 3 ELSE mp - 9
      y   == yoe + era * 400
  IN  << IF m <= 2 THEN y + 1 ELSE y, m, d >>

\* ------------------------------------------------------------------------
\* Numbers
\* ------------------------------------------------------------------------
Abs(x) == IF x < 0 THEN 0 - x ELSE x

RECURSIVE Gcd(_, _)
Gcd(a, b) == IF b = 0 THEN a ELSE Gcd(b, a % b)

\* the finite number n/d (d > 0), reduced
Num(n, d) ==
  LET g == Gcd(Abs(n), d)
  IN  [kind |-> "num", n |-> n \div g, d |-> d \div g]

NonFinite(k) == [kind |-> k, n |-> 0, d |-> 0]

\* ((a - b) / b) * 100 for prices a, b >= 0
PercentChange(a, b) ==
  IF b # 0 THEN Num((a - b) * 100, b)
  ELSE IF a > 0 THEN NonFinite("Infinity")
  ELSE IF a < 0 THEN NonFinite("-Infinity")
  ELSE NonFinite("NaN")

\* x || y on numbers: 0 is falsy
OrElse(x, y) == IF x = 0 THEN y ELSE x

\* ------------------------------------------------------------------------
\* fetchHistoricalData: data.prices.map(...)
\* ------------------------------------------------------------------------
\* one [timestamp, price] item becomes {timestamp, date, price}
FormatItem(item, tz) ==
  [timestamp |-> item.timestamp, date |-> FormatDate(item.timestamp, tz), price |-> item.price]

FormattedData(prices, tz) == [i \in 1..Len(prices) |-> FormatItem(prices[i], tz)]

\* the map throws on an item that has no usable time value
MapThrows(prices) == \E i \in 1..Len(prices) : ~prices[i].valid

\* ------------------------------------------------------------------------
\* performBacktest, one halving event
\* ------------------------------------------------------------------------
PreWindow(data, T) ==
  SelectSeq(data, LAMBDA d : d.timestamp >= T - PreDays * DayLen /\ d.timestamp <= T)

\* a post-window that also takes the point of the halving itself
PostWindow_Inclusive(data, T) ==
  SelectSeq(data, LAMBDA d : d.timestamp >= T /\ d.timestamp <= T + PostDays * DayLen)

PostWindow(data, T) ==
  SelectSeq(data, LAMBDA d : d.timestamp > T /\ d.timestamp <= T + PostDays * DayLen)

PeakSentinel == [price |-> 0, date |-> <<>>, timestamp |-> 0]

TroughSentinel(peakPrice) == [price |-> peakPrice, date |-> <<>>, timestamp |-> 0]

\* a callback that lets a later point of equal price replace the maximum
MaxStep_LastWins(max, point) == IF point.price >= max.price THEN point ELSE max

\* the reduce callback point.price > max.price ? point : max
MaxStep(max, point) == IF point.price > max.price THEN point ELSE max

\* the reduce callback point.price < min.price ? point : min
MinStep(min, point) == IF point.price < min.price THEN point ELSE min

\* pts.reduce(MaxStep, acc) over pts[lo..hi], left to right: the left half
\* is folded first and its result is carried through the right half.  The
\* accumulator is a point (its price a number) before each step runs.
RECURSIVE ReduceMax(_, _, _, _)
ReduceMax(pts, lo, hi, acc) ==
  IF acc.price \in Int /\ lo > hi THEN acc
  ELSE IF lo = hi THEN MaxStep(acc, pts[lo])
  ELSE ReduceMax(pts, ((lo + hi) \div 2) + 1, hi, ReduceMax(pts, lo, (lo + hi) \div 2, acc))

\* pts.reduce(MinStep, acc) over pts[lo..hi], left to right
RECURSIVE ReduceMin(_, _, _, _)
ReduceMin(pts, lo, hi, acc) ==
  IF acc.price \in Int /\ lo > hi THEN acc
  ELSE IF lo = hi THEN MinStep(acc, pts[lo])
  ELSE ReduceMin(pts, ((lo + hi) \div 2) + 1, hi, ReduceMin(pts, lo, (lo + hi) \div 2, acc))

\* postHalvingDataPoints.reduce(..., postHalvingDataPoints[0] || sentinel)
Peak(post) ==
  ReduceMax(post, 1, Len(post), IF Len(post) > 0 THEN post[1] ELSE PeakSentinel)

AfterPeak(data, peak) == SelectSeq(data, LAMBDA d : d.timestamp > peak.timestamp)

\* a slice that keeps every element
Slice_All(s, n) == s

\* afterPeak.slice(0, 365)
Slice(s, n) == SubSeq(s, 1, IF Len(s) < n THEN Len(s) ELSE n)

\* afterPeak.slice(0, 365).reduce(..., afterPeak[0] || sentinel)
Bottom(afterPeak, peakPrice) ==
  LET crash == Slice(afterPeak, CrashPoints)
  IN  ReduceMin(crash, 1, Len(crash),
                IF Len(afterPeak) > 0 THEN afterPeak[1] ELSE TroughSentinel(peakPrice))

\* the body of halvingEvents.forEach: the record pushed for one event
Analyse(halving, data) ==
  LET T            == DateGetTime(halving.date)
      pre          == PreWindow(data, T)
      startPrice   == IF Len(pre) > 0 THEN OrElse(pre[1].price, 0) ELSE 0
      halvingPrice == IF Len(pre) > 0 THEN OrElse(pre[Len(pre)].price, halving.priceAtHalving)
                      ELSE halving.priceAtHalving
      post         == PostWindow(data, T)
      peak         == Peak(post)
      peakPrice    == OrElse(peak.price, 0)
      afterPeak    == AfterPeak(data, peak)
      bottom       == Bottom(afterPeak, peakPrice)
  IN  [cycle |-> halving.cycle,
       halvingDate |-> halving.date,
       preHalvingData |->
         [days |-> 365,
          startPrice |-> startPrice,
          halvingPrice |-> halvingPrice,
          percentageGain |-> PercentChange(halvingPrice, startPrice)],
       postHalvingData |->
         [days |-> Len(post),
          halvingPrice |-> halvingPrice,
          peakPrice |-> peakPrice,
          peakDate |-> peak.date,
          percentageGain |-> PercentChange(peakPrice, halvingPrice),
          daysToTop |-> (peak.timestamp - T) \div DayLen],
       crashData |->
         [crashDate |-> bottom.date,
          bottomPrice |-> bottom.price,
          percentageFromPeak |-> PercentChange(bottom.price, peakPrice)]]

\* performBacktest cut short: the last event's record is never pushed
performBacktest_Short(data) ==
  [i \in 1..(Len(halvingEvents) - 1) |-> Analyse(halvingEvents[i], data)]

\* performBacktest(data): the array handed to setCycleAnalysis
performBacktest(data) ==
  [i \in 1..Len(halvingEvents) |-> Analyse(halvingEvents[i], data)]

\* ------------------------------------------------------------------------
\* Responses of the price endpoint
\* ------------------------------------------------------------------------
T3 == DateGetTime(halvingEvents[3].date)
T4 == DateGetTime(halvingEvents[4].date)

\* timestamps on and around the window ends of the third halving, and the
\* day of the fourth
Stamps ==
  { T3 - PreDays * DayLen - 1, T3 - PreDays * DayLen, T3, T3 + 1,
    T3 + PostDays * DayLen, T3 + PostDays * DayLen + 1, T4 }

Prices == {0, 10000, 15000, 20000}

Items == [valid : {TRUE}, timestamp : Stamps, price : Prices]

\* an item the map cannot convert (null entry, missing or non-numeric time)
BadItem == [valid |-> FALSE, timestamp |-> 0, price |-> 0]

\* timestamp-ascending raw series of length n
ShortSeries(n) ==
  { s \in [1..n -> Items] : \A i \in 1..(n - 1) : s[i].timestamp <= s[i + 1].timestamp }

\* a daily series starting the day after the third halving: the peak at
\* index p, two dips at indices a < b, every other point at the base price
LongSeriesOf(p, a, pa, b, pb) ==
  [i \in 1..(CrashPoints + ExtraPoints) |->
     [valid |-> TRUE,
      timestamp |-> T3 + i * DayLen,
      price |-> IF i = p THEN 20000
                ELSE IF i = a THEN pa
                ELSE IF i = b THEN pb
                ELSE 15000]]

DipPositions == {3} \cup (CrashPoints + 1 .. CrashPoints + ExtraPoints)

LongSeries ==
  { LongSeriesOf(p, a, pa, b, pb) :
      p \in {1, 2}, a \in DipPositions, pa \in {5000, 10000},
      b \in DipPositions, pb \in {5000, 10000} }

\* series in which exactly one item cannot be converted
BrokenSeries ==
  UNION { { [s EXCEPT ![k] = BadItem] : k \in 1..n, s \in ShortSeries(n) } : n \in 1..(MaxLen - 1) }

GoodSeries == (UNION { ShortSeries(n) : n \in 0..MaxLen }) \cup LongSeries

JsonBody(hasPrices, prices) == [json |-> TRUE, hasPrices |-> hasPrices, prices |-> prices]

\* the body is not JSON: response.json() rejects
NotJson == [json |-> FALSE, hasPrices |-> FALSE, prices |-> <<>>]

Bodies ==
  {NotJson, JsonBody(FALSE, <<>>)}
    \cup { JsonBody(TRUE, s) : s \in GoodSeries \cup BrokenSeries }

\* ------------------------------------------------------------------------
\* The Home component
\* ------------------------------------------------------------------------
\* priceData, cycleAnalysis, loading: the three useState cells of Home
\* pc: position of fetchHistoricalData; response: the body being parsed
\* requests: fetch() calls issued; backtests: performBacktest() calls made
\* timeZone: the browser's time zone, read by format()
VARIABLES priceData, cycleAnalysis, loading, pc, response, requests, backtests, timeZone

vars == <<priceData, cycleAnalysis, loading, pc, response, requests, backtests, timeZone>>

Init ==
  /\ priceData = <<>>
  /\ cycleAnalysis = <<>>
  /\ loading = TRUE
  /\ pc = "init"
  /\ response = NotJson
  /\ requests = 0
  /\ backtests = 0
  /\ timeZone \in TimeZones

\* an effect without dependency array: runs after every render
EffectShouldRun_EveryRender(mounted) == TRUE

\* useEffect(..., []): the effect runs on mount only
EffectShouldRun(mounted) == ~mounted

\* useEffect callback: fetchHistoricalData() up to its first await
Mount ==
  /\ EffectShouldRun(pc # "init")
  /\ requests < MaxRequests
  /\ pc' = "fetching"
  /\ requests' = requests + 1
  /\ UNCHANGED <<priceData, cycleAnalysis, loading, response, backtests, timeZone>>

\* a catch block that only logs
Catch_LogOnly ==
  /\ pc' = "failed"
  /\ UNCHANGED <<priceData, cycleAnalysis, loading, response, requests, backtests, timeZone>>

\* catch (error) { console.error(...); setLoading(false); }
Catch ==
  /\ loading' = FALSE
  /\ pc' = "failed"
  /\ UNCHANGED <<priceData, cycleAnalysis, response, requests, backtests, timeZone>>

\* setPriceData; performBacktest (setCycleAnalysis); setLoading(false)
Commit(formattedData) ==
  /\ priceData' = formattedData
  /\ cycleAnalysis' = performBacktest(formattedData)
  /\ backtests' = backtests + 1
  /\ loading' = FALSE
  /\ pc' = "loaded"
  /\ UNCHANGED <<response, requests, timeZone>>

\* await fetch(...) rejects
FetchRejected ==
  /\ pc = "fetching"
  /\ Catch

\* await fetch(...) resolves with some response
FetchFulfilled ==
  /\ pc = "fetching"
  /\ \E body \in Bodies : response' = body
  /\ pc' = "parsing"
  /\ UNCHANGED <<priceData, cycleAnalysis, loading, requests, backtests, timeZone>>

\* await response.json() rejects
JsonRejected ==
  /\ pc = "parsing"
  /\ ~response.json
  /\ Catch

\* the items before the first one that cannot be converted
RECURSIVE ValidPrefix(_)
ValidPrefix(prices) ==
  IF prices = <<>> \/ ~Head(prices).valid THEN <<>>
  ELSE <<Head(prices)>> \o ValidPrefix(Tail(prices))

\* a loader that publishes each item as it converts it
Continuation_Partial ==
  /\ pc = "parsing"
  /\ response.json
  /\ IF ~response.hasPrices
       THEN Catch
       ELSE IF MapThrows(response.prices)
         THEN /\ priceData' = FormattedData(ValidPrefix(response.prices), timeZone)
              /\ loading' = FALSE
              /\ pc' = "failed"
              /\ UNCHANGED <<cycleAnalysis, response, requests, backtests, timeZone>>
         ELSE Commit(FormattedData(response.prices, timeZone))

\* await response.json() resolves: the rest of the try block
Continuation ==
  /\ pc = "parsing"
  /\ response.json
  /\ IF ~response.hasPrices \/ MapThrows(response.prices)
       THEN Catch
       ELSE Commit(FormattedData(response.prices, timeZone))

Next ==
  \/ Mount
  \/ FetchRejected
  \/ FetchFulfilled
  \/ JsonRejected
  \/ Continuation

Spec == Init /\ [][Next]_vars

\* ------------------------------------------------------------------------
\* Vocabulary of the properties, stated on the held series by index
\* ------------------------------------------------------------------------
Events == 1..Len(halvingEvents)

EventTime(e) == DateGetTime(halvingEvents[e].date)

Loaded == pc = "loaded"

AllPositive == \A k \in 1..Len(priceData) : priceData[k].price > 0

\* indices of the points with T - 365 days <= timestamp <= T
PreIdx(e) ==
  LET T == EventTime(e)
  IN  { k \in 1..Len(priceData) :
          /\ priceData[k].timestamp >= T - 365 * 86400
          /\ priceData[k].timestamp <= T }

\* indices of the points with T < timestamp <= T + 730 days
PostIdx(e) ==
  LET T == EventTime(e)
  IN  { k \in 1..Len(priceData) :
          /\ priceData[k].timestamp > T
          /\ priceData[k].timestamp <= T + 730 * 86400 }

MinOf(S) == CHOOSE k \in S : \A j \in S : k <= j

MaxOf(S) == CHOOSE k \in S : \A j \in S : k >= j

\* first index of S whose price is the largest of S
FirstMax(S) ==
  MinOf({ k \in S : \A j \in S : priceData[j].price <= priceData[k].price })

\* first index of S whose price is the smallest of S
FirstMin(S) ==
  MinOf({ k \in S : \A j \in S : priceData[j].price >= priceData[k].price })

\* timestamp of the peak: of the first maximum of the post-window, 0 for
\* the sentinel
PeakTime(e) ==
  IF PostIdx(e) = {} THEN 0 ELSE priceData[FirstMax(PostIdx(e))].timestamp

\* indices of the points strictly after the peak
AfterIdx(e) ==
  LET peakTime == PeakTime(e)
  IN  { k \in 1..Len(priceData) : priceData[k].timestamp > peakTime }

\* the first 365 of them in series order
CrashIdx(e) ==
  LET A == AfterIdx(e)
  IN  { k \in A : Cardinality({ j \in A : j < k }) < 365 }

Zero == [kind |-> "num", n |-> 0, d |-> 1]

\* the trough repeats the peak: same price, no date, no change
Degenerate(r) ==
  /\ r.crashData.bottomPrice = r.postHalvingData.peakPrice
  /\ r.crashData.crashDate = <<>>
  /\ r.crashData.percentageFromPeak = Zero

NotPositive(x) == x.kind = "num" /\ x.n <= 0

\* ------------------------------------------------------------------------
\* Properties
\* ------------------------------------------------------------------------

\* C1: for every event and every non-empty ascending series of positive
\* prices, either the peak's timestamp lies in (T, T + 730 days] and the
\* trough's timestamp is after the peak's, or the record is the degenerate
\* zero-change one (trough price = peak price, drawdown 0); when the
\* post-window is empty the record is the degenerate one and the trough is
\* no point of the series.
C1_PeakTroughOrDegenerate ==
  (Loaded /\ AllPositive /\ Len(priceData) > 0) =>
    \A e \in Events :
      LET r      == cycleAnalysis[e]
          T      == EventTime(e)
          peak   == Peak(PostWindow(priceData, T))
          bottom == Bottom(AfterPeak(priceData, peak), r.postHalvingData.peakPrice)
          inWindows ==
            /\ peak.timestamp > T
            /\ peak.timestamp <= T + 730 * 86400
            /\ bottom.timestamp > peak.timestamp
      IN  /\ inWindows \/ Degenerate(r)
          /\ PostIdx(e) = {} => Degenerate(r)

\* C2: when the post-window is not empty, the peak is the first point of
\* the window that has the window's maximum price.
C2_PeakIsFirstMaximum ==
  Loaded =>
    \A e \in Events :
      PostIdx(e) # {} =>
        LET k == FirstMax(PostIdx(e))
            r == cycleAnalysis[e].postHalvingData
        IN  /\ r.peakPrice = priceData[k].price
            /\ r.peakDate = priceData[k].date
            /\ r.daysToTop = (priceData[k].timestamp - EventTime(e)) \div 86400
            /\ r.days = Cardinality(PostIdx(e))

\* C2 witness: a post-window holds its maximum price on two different days
C2_Witness ==
  /\ Loaded
  /\ \E e \in Events : \E j, k \in PostIdx(e) :
       /\ j < k
       /\ priceData[j].price = priceData[k].price
       /\ priceData[j].date # priceData[k].date
       /\ \A i \in PostIdx(e) : priceData[i].price <= priceData[j].price

\* C3: the trough is the first point of minimum price among the first 365
\* points after the peak; later points are never chosen.
C3_TroughWithinFirst365 ==
  Loaded =>
    \A e \in Events :
      CrashIdx(e) # {} =>
        LET k == FirstMin(CrashIdx(e))
            r == cycleAnalysis[e].crashData
        IN  /\ r.bottomPrice = priceData[k].price
            /\ r.crashDate = priceData[k].date

\* C3 witness: a point after the 365th post-peak point is cheaper than the
\* reported trough
C3_Witness ==
  /\ Loaded
  /\ \E e \in Events : \E k \in AfterIdx(e) \ CrashIdx(e) :
       /\ PostIdx(e) # {}
       /\ priceData[k].price < cycleAnalysis[e].crashData.bottomPrice

\* C4: an event whose post-window is empty still gets its record, with the
\* zero-price sentinel as peak and a post gain of -100 when halvingPrice > 0.
C4_EmptyPostWindowSentinel ==
  Loaded =>
    /\ Len(cycleAnalysis) = Len(halvingEvents)
    /\ \A e \in Events :
         PostIdx(e) = {} =>
           LET r == cycleAnalysis[e].postHalvingData
           IN  /\ cycleAnalysis[e].cycle = halvingEvents[e].cycle
               /\ r.peakPrice = 0
               /\ r.peakDate = <<>>
               /\ r.days = 0
               /\ r.halvingPrice > 0 =>
                    r.percentageGain = [kind |-> "num", n |-> -100, d |-> 1]

\* C4 witness: the series ends on the day of the fourth halving
C4_Witness ==
  /\ Loaded
  /\ PreIdx(4) # {}
  /\ PostIdx(4) = {}
  /\ cycleAnalysis[4].postHalvingData.halvingPrice > 0
  /\ priceData[Len(priceData)].timestamp = EventTime(4)

\* C5: startPrice is the price of the first point of the pre-window (0 if
\* the window is empty), halvingPrice the price of the last point, the
\* table's priceAtHalving being used only when the window is empty, also
\* when that price is 0; the series (t0,100),(t1,200),(t2,150) with the
\* event at t1 gives a pre gain of 100 and a post gain of -25.
C5_PreWindowPrices ==
  Loaded =>
    \A e \in Events :
      LET P == PreIdx(e)
          r == cycleAnalysis[e]
      IN  /\ r.preHalvingData.startPrice =
               (IF P = {} THEN 0 ELSE priceData[MinOf(P)].price)
          /\ r.preHalvingData.halvingPrice =
               (IF P = {} THEN halvingEvents[e].priceAtHalving
                ELSE priceData[MaxOf(P)].price)
          /\ r.postHalvingData.halvingPrice = r.preHalvingData.halvingPrice
          /\ ( /\ Len(priceData) = 3
               /\ priceData[1].price = 10000 /\ priceData[1].timestamp < EventTime(e)
               /\ priceData[2].price = 20000 /\ priceData[2].timestamp = EventTime(e)
               /\ priceData[3].price = 15000 /\ priceData[3].timestamp > EventTime(e)
               /\ P = {1, 2} /\ PostIdx(e) = {3} )
             => /\ r.preHalvingData.percentageGain = [kind |-> "num", n |-> 100, d |-> 1]
                /\ r.postHalvingData.percentageGain = [kind |-> "num", n |-> -25, d |-> 1]

\* C6: after a failed load the series and the analyses are still empty, no
\* analysis has run and no second request has been issued.
C6_FailureLeavesNoData ==
  pc = "failed" =>
    /\ priceData = <<>>
    /\ cycleAnalysis = <<>>
    /\ backtests = 0
    /\ requests = 1

\* C6 witness: the conversion failed on an item that follows a good one
C6_Witness ==
  /\ pc = "failed"
  /\ response.json
  /\ response.hasPrices
  /\ Len(response.prices) >= 2
  /\ response.prices[1].valid

\* C7 as stated: after a failed load, loading is still true.
C7_LoadingStaysTrue == pc = "failed" => loading = TRUE

\* C7 amended: after a failed load, loading is false (the catch block
\* resets it), with no series and no analyses to show.
C7_FailureEndsLoading ==
  pc = "failed" => (loading = FALSE /\ priceData = <<>> /\ cycleAnalysis = <<>>)

\* C7 witness: the fetch itself was rejected
C7_Witness == pc = "failed" /\ ~loading /\ response = NotJson /\ requests = 1

\* C8: one request once the page is mounted and none before, whatever the
\* outcome; one analysis once the load has succeeded and none otherwise.
C8_SingleLoadAttempt ==
  /\ requests = (IF pc = "init" THEN 0 ELSE 1)
  /\ backtests = (IF pc = "loaded" THEN 1 ELSE 0)

\* C8 witness: a successful load, after one request and one analysis
C8_Witness == Loaded /\ requests = 1 /\ backtests = 1 /\ ~loading

\* C9: after a successful load, whenever loading is false the held series
\* is the whole converted response and there is one record per halving, in
\* table order, each the analysis of its own event on that whole series.
C9_LoadedMeansComplete ==
  (Loaded /\ ~loading) =>
    /\ priceData = FormattedData(response.prices, timeZone)
    /\ Len(cycleAnalysis) = 4
    /\ \A e \in 1..4 :
         /\ cycleAnalysis[e].cycle = e
         /\ cycleAnalysis[e] = Analyse(halvingEvents[e], priceData)

\* C9 witness: a series of full length is on display
C9_Witness == Loaded /\ ~loading /\ Len(priceData) >= MaxLen /\ Len(cycleAnalysis) = 4

\* C10: for positive prices and a non-empty post-window the trough price is
\* at most the peak price and the drawdown is never positive.
C10_DrawdownNeverPositive ==
  (Loaded /\ AllPositive) =>
    \A e \in Events :
      PostIdx(e) # {} =>
        /\ cycleAnalysis[e].crashData.bottomPrice <= cycleAnalysis[e].postHalvingData.peakPrice
        /\ NotPositive(cycleAnalysis[e].crashData.percentageFromPeak)

====
